---- MODULE Spec2Model ----
(***************************************************************************)
(* Resume screener: skill normalisation and implied-skill expansion        *)
(* (utils.py), document text extraction and result-shape normalisation     *)
(* (main.py).  Strings are TLA+ strings; a character is a string of        *)
(* length one.                                                             *)
(***************************************************************************)
EXTENDS Integers, Sequences, FiniteSets, TLC

VARIABLES
    \* ---- utils.py: normalize_skills / fuzzy_expand_skills
    skills_in,      \* the `skills` argument of normalize_skills (a list of raw strings)
    jd_text,        \* the `jd_text` argument of fuzzy_expand_skills
    threshold,      \* the `threshold` argument of fuzzy_expand_skills
    spc,            \* position of the caller: "start", "normalized", "renormalized",
                    \* "expanding", "returned"
    normalized,     \* list returned by normalize_skills(skills_in)
    renormalized,   \* list returned by normalize_skills(normalized)
    jd_terms,       \* the list jd_terms built by fuzzy_expand_skills
    matched,        \* the list `matched` of fuzzy_expand_skills
    contrib,        \* per loop iteration, the terms that iteration appended to matched
    idx,            \* number of loop iterations of fuzzy_expand_skills completed
    skills_arg,     \* the `skills` argument of fuzzy_expand_skills
    expanded,       \* list returned by fuzzy_expand_skills
    \* ---- main.py: ResumeExtractor
    filename,       \* the `filename` / `file_path` argument
    document,       \* what the bytes (or the file at file_path) hold; NoFile
                    \* when nothing exists at file_path
    from_bytes,     \* outcome of extract_text_from_bytes(bytes, filename)
    from_file,      \* outcome of extract_text_from_file(filename)
    \* ---- main.py: one call of ResumeExtractor.extract_text_from_pdf_bytes
    file_bytes,     \* the `file_bytes` argument: what the uploaded bytes hold
    tmp_pc,         \* position in the call: "create", "write", "assign", "close",
                    \* "extract", "finally", "done"
    tmp_path,       \* the local `tmp_path`; "" stands for None
    tmp_file,       \* the file NamedTemporaryFile made: exists, open, content
    reopened,       \* how the file was when extract_text_from_pdf opened it
    pending,        \* the return value or exception the finally block holds
    remove_failed,  \* os.remove raised and the except clause swallowed it
    outcome,        \* what the call returned or raised
    \* ---- main.py: one call of ResumeProcessor._normalize_screening_result
    result_in,      \* the `result` argument
    result_out,     \* the value returned
    \* ---- main.py: calls of ResumeProcessor.screen_resume on one resume
    parsed_resume,  \* the caller's `parsed_resume` dict, as it is now
    supplied,       \* that dict as the caller built it, before any call
    job_description,\* the `job_description` argument
    reply,          \* what kind of value self.screener.screen_resume gives back
    screen_log,     \* per call: the skills the screener was given and the
                    \* outcome of the call
    \* ---- app.py: one request to /api/parse
    request_file,   \* request.files["file"]: its filename and what it holds,
                    \* or NoFilePart
    response        \* the response of parse_resume

skillVars == <<skills_in, jd_text, threshold, spc, normalized, renormalized,
               jd_terms, matched, contrib, idx, skills_arg, expanded>>

extractVars == <<filename, document, from_bytes, from_file>>

tmpVars == <<file_bytes, tmp_pc, tmp_path, tmp_file, reopened, pending,
             remove_failed, outcome>>

shapeVars == <<result_in, result_out>>

screenVars == <<parsed_resume, supplied, job_description, reply, screen_log>>

boundaryVars == <<request_file, response>>

vars == <<skillVars, extractVars, tmpVars, shapeVars, screenVars, boundaryVars>>

\* what the calls of one component leave alone
outsideSkills == <<extractVars, tmpVars, shapeVars, screenVars, boundaryVars>>
outsideExtract == <<skillVars, tmpVars, shapeVars, screenVars, boundaryVars>>
outsideTmp == <<skillVars, extractVars, shapeVars, screenVars, boundaryVars>>
outsideShape == <<skillVars, extractVars, tmpVars, screenVars, boundaryVars>>
outsideScreen == <<skillVars, extractVars, tmpVars, shapeVars, boundaryVars>>
outsideBoundary == <<skillVars, extractVars, tmpVars, shapeVars, screenVars>>

(***************************************************************************)
(* Strings                                                                 *)
(***************************************************************************)
CharAt(s, i) == SubSeq(s, i, i)

CharsOf(s) == {CharAt(s, i) : i \in 1..Len(s)}

RECURSIVE IndexIn(_, _, _)
\* 1-based index of character c in string s at or after position i, 0 if none
IndexIn(c, s, i) ==
    IF i > Len(s) THEN 0
    ELSE IF CharAt(s, i) = c THEN i
    ELSE IndexIn(c, s, i + 1)

AsciiUpper == "ABCDEFGHIJKLMNOPQRSTUVWXYZ"
AsciiLower == "abcdefghijklmnopqrstuvwxyz"

\* str.lower() on one character: an ASCII capital becomes its small letter;
\* a small letter (the sharp s included) or a caseless character is unchanged.
LowerChar(c) ==
    LET k == IndexIn(c, AsciiUpper, 1)
    IN  IF k > 0 THEN CharAt(AsciiLower, k) ELSE c

\* str.upper() on one character other than the sharp s
UpperChar(c) ==
    LET k == IndexIn(c, AsciiLower, 1)
    IN  IF k > 0 THEN CharAt(AsciiUpper, k) ELSE c

\* the sharp s (U+00DF), a lowercase letter whose str.upper() is "SS"
SharpS == "ß"

RECURSIVE Lower(_)
Lower(s) == IF s = "" THEN "" ELSE LowerChar(Head(s)) \o Lower(Tail(s))

RECURSIVE Upper(_)
Upper(s) ==
    IF s = "" THEN ""
    ELSE IF Len(s) >= Len(SharpS) /\ SubSeq(s, 1, Len(SharpS)) = SharpS
         THEN "SS" \o Upper(SubSeq(s, Len(SharpS) + 1, Len(s)))
    ELSE UpperChar(Head(s)) \o Upper(Tail(s))

\* characters str.strip() and str.split() treat as whitespace
IsSpace(c) == c \in {" ", "\t", "\n", "\r"}

RECURSIVE LStrip(_)
LStrip(s) == IF s # "" /\ IsSpace(Head(s)) THEN LStrip(Tail(s)) ELSE s

RECURSIVE RStrip(_)
RStrip(s) ==
    IF s # "" /\ IsSpace(CharAt(s, Len(s)))
    THEN RStrip(SubSeq(s, 1, Len(s) - 1)) ELSE s

Strip(s) == RStrip(LStrip(s))

\* Python's `t in s` on strings
Contains(s, t) ==
    \E i \in 1..(Len(s) - Len(t) + 1) : SubSeq(s, i, i + Len(t) - 1) = t

StartsWith(s, t) == Len(s) >= Len(t) /\ SubSeq(s, 1, Len(t)) = t

EndsWith(s, t) ==
    Len(s) >= Len(t) /\ SubSeq(s, Len(s) - Len(t) + 1, Len(s)) = t

(***************************************************************************)
(* Lists and sets                                                          *)
(***************************************************************************)
SeqToSet(q) == {q[i] : i \in 1..Len(q)}

\* list(S) for a Python set S: the elements once each, in an order the
\* language does not fix
ListsOf(S) ==
    {q \in [1..Cardinality(S) -> S] : SeqToSet(q) = S}

RECURSIVE SeqsUpTo(_, _)
\* the sequences over S of length at most n
SeqsUpTo(S, n) ==
    IF n = 0 THEN {<<>>}
    ELSE LET shorter == SeqsUpTo(S, n - 1)
         IN  shorter \cup {Append(q, x) : q \in shorter, x \in S}

Min(S) == CHOOSE x \in S : \A y \in S : x <= y

(***************************************************************************)
(* utils.py: the synonym table and normalize_skills                        *)
(***************************************************************************)
\* a table in which the canonical name "sql" is also listed as a variant of
\* an earlier item
ChainedSynonyms == <<
    [canonical |-> "backend",
     variants  |-> <<"fastapi", "django", "flask", "node.js", "sql">>],
    [canonical |-> "sql",
     variants  |-> <<"mysql", "postgresql", "sqlite", "mariadb">>] >>

\* SKILL_SYNONYMS, a dict: its items in insertion order
SKILL_SYNONYMS == <<
    [canonical |-> "sql",
     variants  |-> <<"mysql", "postgresql", "sqlite", "mariadb">>],
    [canonical |-> "nosql",
     variants  |-> <<"mongodb", "cassandra", "dynamodb", "couchdb">>],
    [canonical |-> "ml",
     variants  |-> <<"machine learning", "ml", "ai">>],
    [canonical |-> "nlp",
     variants  |-> <<"natural language processing", "text analytics">>],
    [canonical |-> "frontend",
     variants  |-> <<"react", "vue", "angular", "html", "css", "javascript">>],
    [canonical |-> "backend",
     variants  |-> <<"fastapi", "django", "flask", "node.js">>] >>

Canonicals == {SKILL_SYNONYMS[k].canonical : k \in 1..Len(SKILL_SYNONYMS)}

VariantsOf(k) == SeqToSet(SKILL_SYNONYMS[k].variants)

\* normalize_skills adding the skill where it should add the canonical name
LookupKeepsSkill(skill) == skill

\* the inner loop of normalize_skills: the canonical name of the first item
\* of SKILL_SYNONYMS that `skill` equals or is a variant of, else the skill
LookupCanonical(skill) ==
    LET hits == {k \in 1..Len(SKILL_SYNONYMS) :
                    \/ skill = SKILL_SYNONYMS[k].canonical
                    \/ skill \in VariantsOf(k)}
    IN  IF hits = {} THEN skill ELSE SKILL_SYNONYMS[Min(hits)].canonical

\* the list comprehension without its lower()
CleanSkillNoLower(s) == Strip(s)

\* `s.lower().strip()` of the list comprehension
CleanSkill(s) == Strip(Lower(s))

\* the set `normalized` that normalize_skills builds from the list `skills`
NormalizedSet(skills) ==
    {LookupCanonical(CleanSkill(skills[i])) : i \in 1..Len(skills)}

\* the values normalize_skills(skills) can return: list(normalized)
normalize_skills(skills) == ListsOf(NormalizedSet(skills))

(***************************************************************************)
(* rapidfuzz: fuzz.token_set_ratio and process.extractOne, as called by    *)
(* fuzzy_expand_skills (no processor, no score_cutoff).  A score is a      *)
(* fraction <<n, d>>, standing for the float n / d.                        *)
(***************************************************************************)
RECURSIVE SplitFrom(_, _, _, _)
\* str.split(): the maximal runs of non-whitespace characters, in order
SplitFrom(s, i, cur, acc) ==
    IF i > Len(s) THEN (IF cur = "" THEN acc ELSE Append(acc, cur))
    ELSE IF IsSpace(CharAt(s, i))
         THEN SplitFrom(s, i + 1, "", IF cur = "" THEN acc ELSE Append(acc, cur))
    ELSE SplitFrom(s, i + 1, cur \o CharAt(s, i), acc)

Split(s) == SplitFrom(s, 1, "", <<>>)

\* the characters of the model in code point order (every non-ASCII
\* character is greater than every ASCII one)
CodePointOrder ==
    "\t\n\r #-./0123456789ABCDEFGHIJKLMNOPQRSTUVWXYZabcdefghijklmnopqrstuvwxyz"

CodeRank(c) ==
    LET k == IndexIn(c, CodePointOrder, 1)
    IN  IF k > 0 THEN k ELSE Len(CodePointOrder) + 1

RECURSIVE StrLess(_, _)
\* a < b on Python strings
StrLess(a, b) ==
    IF b = "" THEN FALSE
    ELSE IF a = "" THEN TRUE
    ELSE IF Head(a) = Head(b) THEN StrLess(Tail(a), Tail(b))
    ELSE CodeRank(Head(a)) < CodeRank(Head(b))

RECURSIVE SortedJoin(_)
\* " ".join(sorted(S)) for a set S of strings
SortedJoin(S) ==
    IF S = {} THEN ""
    ELSE LET m == CHOOSE x \in S : \A y \in S \ {x} : StrLess(x, y)
         IN  IF S = {m} THEN m ELSE m \o " " \o SortedJoin(S \ {m})

RECURSIVE LcsCell(_, _, _, _, _)
\* the row of the longest-common-subsequence table for a[i], given the
\* row `prev` for a[i-1]; row[j+1] is the entry for b[1..j]
LcsCell(a, b, i, prev, row) ==
    LET j == Len(row)
    IN  IF j > Len(b) THEN row
        ELSE LcsCell(a, b, i, prev,
                 Append(row,
                     IF CharAt(a, i) = CharAt(b, j)
                     THEN prev[j] + 1
                     ELSE IF prev[j + 1] >= row[j] THEN prev[j + 1] ELSE row[j]))

RECURSIVE LcsRows(_, _, _, _)
\* the last entry of the last row; a row that already matches all of b ends
\* the computation
LcsRows(a, b, i, prev) ==
    IF i > Len(a) THEN prev[Len(b) + 1]
    ELSE LET row == LcsCell(a, b, i, prev, <<0>>)
         IN  IF row[Len(b) + 1] = Len(b) THEN Len(b)
             ELSE LcsRows(a, b, i + 1, row)

LcsLen(a, b) == LcsRows(a, b, 1, [j \in 1..(Len(b) + 1) |-> 0])

\* Indel.distance: insertions and deletions turning a into b
IndelDistance(a, b) == Len(a) + Len(b) - 2 * LcsLen(a, b)

\* _norm_distance: 100 - 100 * dist / lensum, and 100 when lensum is 0
NormDistance(dist, lensum) ==
    IF lensum = 0 THEN <<100, 1>> ELSE <<100 * (lensum - dist), lensum>>

ScoreGE(x, y) == x[1] * y[2] >= y[1] * x[2]

ScoreMax(x, y) == IF ScoreGE(x, y) THEN x ELSE y

token_set_ratio(s1, s2) ==
    LET tokens_a == SeqToSet(Split(s1))
        tokens_b == SeqToSet(Split(s2))
        intersect == tokens_a \cap tokens_b
        diff_ab == tokens_a \ tokens_b
        diff_ba == tokens_b \ tokens_a
        diff_ab_joined == SortedJoin(diff_ab)
        diff_ba_joined == SortedJoin(diff_ba)
        ab_len == Len(diff_ab_joined)
        ba_len == Len(diff_ba_joined)
        sect_len == Len(SortedJoin(intersect))
        sep == IF sect_len # 0 THEN 1 ELSE 0
        sect_ab_len == sect_len + sep + ab_len
        sect_ba_len == sect_len + sep + ba_len
        result == NormDistance(IndelDistance(diff_ab_joined, diff_ba_joined),
                               sect_ab_len + sect_ba_len)
        sect_ab_ratio == NormDistance(sep + ab_len, sect_len + sect_ab_len)
        sect_ba_ratio == NormDistance(sep + ba_len, sect_len + sect_ba_len)
    IN  IF s1 = "" \/ s2 = "" THEN <<0, 1>>
        ELSE IF tokens_a = {} \/ tokens_b = {} THEN <<0, 1>>
        ELSE IF intersect # {} /\ (diff_ab = {} \/ diff_ba = {}) THEN <<100, 1>>
        ELSE IF sect_len = 0 THEN result
        ELSE ScoreMax(result, ScoreMax(sect_ab_ratio, sect_ba_ratio))

\* process.extractOne(query, choices, scorer=fuzz.token_set_ratio): the index
\* of the first choice with the greatest score, 0 (None) when there is no
\* choice
extractOne(query, choices) ==
    IF choices = <<>> THEN 0
    ELSE Min({i \in 1..Len(choices) :
                \A j \in 1..Len(choices) :
                    /\ ScoreGE(token_set_ratio(query, choices[i]),
                               token_set_ratio(query, choices[j]))
                    /\ (j < i =>
                          ~ScoreGE(token_set_ratio(query, choices[j]),
                                   token_set_ratio(query, choices[i])))})

(***************************************************************************)
(* utils.py: fuzzy_expand_skills                                           *)
(***************************************************************************)
\* all_known: every variant and every canonical name
all_known ==
    UNION {VariantsOf(k) : k \in 1..Len(SKILL_SYNONYMS)} \cup Canonicals

\* the members of all_known that occur in the lowercased job description
JdTermSet(text) ==
    LET jd_text_lower == Lower(text)
    IN  {t \in all_known : Contains(jd_text_lower, t)}

\* the first guard: `not skills or not jd_text`
EmptyInput(skills, text) == skills = <<>> \/ text = ""

\* the comparison written `score > threshold`
ReachesStrictly(score, thr) == score[1] > thr * score[2]

\* `score >= threshold` for the score of the best match
Reaches(score, thr) == score[1] >= thr * score[2]

\* one iteration of `for skill in skills`: the terms it appends to matched
MatchFor(skill, terms, thr) ==
    LET r == extractOne(skill, terms)
    IN  IF r # 0 /\ Reaches(token_set_ratio(skill, terms[r]), thr)
        THEN <<terms[r]>> ELSE <<>>

(***************************************************************************)
(* Each component is checked on its own: the variables of the others rest. *)
(***************************************************************************)
NotCalled == [kind |-> "none"]

\* nothing at a file path
NoFile == [format |-> "none"]

ExtractIdle ==
    /\ filename = ""
    /\ document = NoFile
    /\ from_bytes = NotCalled
    /\ from_file = NotCalled

\* no temporary file
NoTmpFile == [exists |-> FALSE, open |-> FALSE, content |-> NoFile]

TmpIdle ==
    /\ file_bytes = NoFile
    /\ tmp_pc = "idle"
    /\ tmp_path = ""
    /\ tmp_file = NoTmpFile
    /\ reopened = NotCalled
    /\ pending = NotCalled
    /\ remove_failed = FALSE
    /\ outcome = NotCalled

ShapeIdle ==
    /\ result_in = NotCalled
    /\ result_out = NotCalled

BoundaryIdle ==
    /\ request_file = NotCalled
    /\ response = NotCalled

ScreenIdle ==
    /\ parsed_resume = NotCalled
    /\ supplied = NotCalled
    /\ job_description = ""
    /\ reply = NotCalled
    /\ screen_log = <<>>

SkillsIdle ==
    /\ skills_in = <<>>
    /\ jd_text = ""
    /\ threshold = 0
    /\ spc = "idle"
    /\ normalized = <<>>
    /\ renormalized = <<>>
    /\ jd_terms = <<>>
    /\ matched = <<>>
    /\ contrib = <<>>
    /\ idx = 0
    /\ skills_arg = <<>>
    /\ expanded = NotCalled

(***************************************************************************)
(* The calls of utils.py.                                                 *)
(***************************************************************************)
MaxSkills == 2

\* the default of the parameter `threshold`
DefaultThreshold == 85

RawSkills ==
    {"MySQL", " sql ", "React Native", "python", "schwei" \o SharpS \o "en"}

JobDescriptions ==
    {"", "Requires MongoDB and Python", "Requires strong SQL/MySQL experience",
     "React Native, Node.js", "Go and Rust"}

Thresholds == {0, DefaultThreshold}

SkillLists ==
    SeqsUpTo(RawSkills, MaxSkills) \cup {<<t>> : t \in all_known}

\* A value fuzzy_expand_skills returns: the list it was given (`return
\* skills`), or list(set(...)), a list of the elements of a set in an order
\* the language does not fix, kept here as that set.
SameList(l) == [how |-> "input", list |-> l]
ListOfSet(S) == [how |-> "union", elems |-> S]

\* the set of the elements of a returned value
ElementsOf(r) == IF r.how = "input" THEN SeqToSet(r.list) ELSE r.elems

NotReturned == [how |-> "none"]

SkillsInit ==
    /\ skills_in \in SkillLists
    /\ jd_text = ""
    /\ threshold = DefaultThreshold
    /\ spc = "start"
    /\ normalized = <<>>
    /\ renormalized = <<>>
    /\ jd_terms = <<>>
    /\ matched = <<>>
    /\ contrib = <<>>
    /\ idx = 0
    /\ skills_arg = <<>>
    /\ expanded = NotReturned
    /\ ExtractIdle
    /\ TmpIdle
    /\ ShapeIdle
    /\ ScreenIdle
    /\ BoundaryIdle

\* normalize_skills(skills_in), as screen_resume calls it on the resume's skills
NormalizeCall ==
    /\ spc = "start"
    /\ normalized' \in normalize_skills(skills_in)
    /\ spc' = "normalized"
    /\ UNCHANGED <<skills_in, jd_text, threshold, renormalized, jd_terms,
                   matched, contrib, idx, skills_arg, expanded,
                   outsideSkills>>

\* normalize_skills applied to its own result
NormalizeAgain ==
    /\ spc = "normalized"
    /\ renormalized' \in normalize_skills(normalized)
    /\ spc' = "renormalized"
    /\ UNCHANGED <<skills_in, jd_text, threshold, normalized, jd_terms,
                   matched, contrib, idx, skills_arg, expanded,
                   outsideSkills>>

\* the function without its two guards (the earlier version that the source
\* keeps in a comment): it always goes on to the loop and the final union
ExpandEnterUnguarded(skills, jd, thr) ==
    /\ skills_arg' = skills
    /\ jd_text' = jd
    /\ threshold' = thr
    /\ \E terms \in ListsOf(JdTermSet(jd)) : jd_terms' = terms
    /\ expanded' = NotReturned
    /\ spc' = "expanding"
    /\ matched' = <<>>
    /\ contrib' = <<>>
    /\ idx' = 0
    /\ UNCHANGED <<skills_in, normalized, renormalized,
                   outsideSkills>>

\* fuzzy_expand_skills(skills, jd, thr) up to the loop: the guards and the
\* construction of jd_terms, a list built by iterating over the set all_known
ExpandEnter(skills, jd, thr) ==
    /\ skills_arg' = skills
    /\ jd_text' = jd
    /\ threshold' = thr
    /\ IF EmptyInput(skills, jd)
       THEN /\ jd_terms' = <<>>
            /\ expanded' = SameList(skills)
            /\ spc' = "returned"
       ELSE \E terms \in ListsOf(JdTermSet(jd)) :
               /\ jd_terms' = terms
               /\ IF terms = <<>>
                  THEN /\ expanded' = SameList(skills)
                       /\ spc' = "returned"
                  ELSE /\ expanded' = NotReturned
                       /\ spc' = "expanding"
    /\ matched' = <<>>
    /\ contrib' = <<>>
    /\ idx' = 0
    /\ UNCHANGED <<skills_in, normalized, renormalized,
                   outsideSkills>>

\* screen_resume: fuzzy_expand_skills on the normalized skills, with the
\* default threshold
ExpandNormalized ==
    /\ spc = "normalized"
    /\ \E jd \in JobDescriptions :
          ExpandEnter(normalized, jd, DefaultThreshold)

\* fuzzy_expand_skills called on a list as given, with any threshold
ExpandDirect ==
    /\ spc = "start"
    /\ \E jd \in JobDescriptions, thr \in Thresholds :
          ExpandEnter(skills_in, jd, thr)

\* one iteration of the loop over skills
ExpandLoop ==
    /\ spc = "expanding"
    /\ idx < Len(skills_arg)
    /\ LET m == MatchFor(skills_arg[idx + 1], jd_terms, threshold)
       IN  /\ matched' = matched \o m
           /\ contrib' = Append(contrib, m)
    /\ idx' = idx + 1
    /\ UNCHANGED <<skills_in, jd_text, threshold, spc, normalized, renormalized,
                   jd_terms, skills_arg, expanded,
                   outsideSkills>>

\* `return list(set(skills + matched))`
ExpandReturn ==
    /\ spc = "expanding"
    /\ idx = Len(skills_arg)
    /\ expanded' = ListOfSet(SeqToSet(skills_arg \o matched))
    /\ spc' = "returned"
    /\ UNCHANGED <<skills_in, jd_text, threshold, normalized, renormalized,
                   jd_terms, matched, contrib, idx, skills_arg,
                   outsideSkills>>

SkillsNext ==
    \/ NormalizeCall
    \/ NormalizeAgain
    \/ ExpandNormalized
    \/ ExpandDirect
    \/ ExpandLoop
    \/ ExpandReturn

SpecSkills == SkillsInit /\ [][SkillsNext]_vars

(***************************************************************************)
(* Claims about utils.py, checked under SpecSkills                         *)
(***************************************************************************)
\* C1: normalize_skills on a one-element list [t] returns exactly [c] when t
\* is the canonical name c or one of the variants listed under c, and
\* exactly [t] when t is a lowercase trimmed token that is neither a
\* canonical name nor a variant.
C1_SingleTokenFolds ==
    (spc = "normalized" /\ Len(skills_in) = 1) =>
        LET t == skills_in[1]
        IN  /\ \A k \in 1..Len(SKILL_SYNONYMS) :
                  (t \in VariantsOf(k) \/ t = SKILL_SYNONYMS[k].canonical)
                      => normalized = <<SKILL_SYNONYMS[k].canonical>>
            /\ (t \notin all_known /\ Strip(t) = t /\ Lower(t) = t)
                  => normalized = <<t>>

C1_Witness ==
    /\ spc = "normalized"
    /\ skills_in = <<"postgresql">>
    /\ normalized = <<"sql">>

\* C2: normalizing the list normalize_skills returned gives the same set of
\* skills again.
C2_NormalizeIdempotent ==
    spc = "renormalized" => SeqToSet(renormalized) = SeqToSet(normalized)

C2_Witness ==
    /\ spc = "renormalized"
    /\ skills_in = <<"MySQL", " sql ">>
    /\ normalized = <<"sql">>
    /\ renormalized = <<"sql">>

\* the list returned by normalize_skills holds no value twice
NoDuplicates(l) == \A i, j \in 1..Len(l) : l[i] = l[j] => i = j

\* C3 as stated: for every token t, normalize_skills([t]) and
\* normalize_skills([t.upper(), " " + t + " "]) are the same set, and the
\* result never holds a canonical form twice.
C3_CaseAndSpaceInsensitive ==
    /\ spc # "start" => NoDuplicates(normalized)
    /\ (spc = "normalized" /\ Len(skills_in) = 1) =>
          LET t == skills_in[1]
          IN  SeqToSet(normalized)
                  = NormalizedSet(<<Upper(t), " " \o t \o " ">>)

\* C3 amended: the same for every token t that lower() takes back from
\* its upper() (t.upper().lower() = t.lower(), so every ASCII token).
C3_CaseInsensitiveWhenUpperRoundTrips ==
    /\ spc # "start" => NoDuplicates(normalized)
    /\ (spc = "normalized" /\ Len(skills_in) = 1) =>
          LET t == skills_in[1]
          IN  Lower(Upper(t)) = Lower(t) =>
                  SeqToSet(normalized)
                      = NormalizedSet(<<Upper(t), " " \o t \o " ">>)

C3_Witness ==
    /\ spc = "normalized"
    /\ skills_in = <<"React Native">>
    /\ Upper(skills_in[1]) = "REACT NATIVE"
    /\ normalized = <<"react native">>

\* no member of all_known occurs in the lowercased text
NoKnownTermIn(text) ==
    LET low == Lower(text)
    IN  \A t \in all_known : ~Contains(low, t)

\* C4: fuzzy_expand_skills returns the list it was given when the job
\* description is empty, when the list is empty (the result is then empty),
\* and when no known term occurs in the lowercased job description.
C4_NoOpOnEmptyInput ==
    spc = "returned" =>
        /\ jd_text = "" => expanded = SameList(skills_arg)
        /\ skills_arg = <<>> => expanded = SameList(<<>>)
        /\ NoKnownTermIn(jd_text) => expanded = SameList(skills_arg)

C4_Witness ==
    /\ spc = "returned"
    /\ skills_arg = <<"MySQL", "python">>
    /\ jd_text = "Go and Rust"
    /\ threshold = 0
    /\ expanded = SameList(skills_arg)

\* the terms of jd_terms that score best against skill s, when that best
\* score reaches the threshold
QualifyingBest(s) ==
    LET T == SeqToSet(jd_terms)
    IN  {t \in T :
            /\ \A u \in T : ScoreGE(token_set_ratio(s, t), token_set_ratio(s, u))
            /\ token_set_ratio(s, t)[1] >= threshold * token_set_ratio(s, t)[2]}

\* C5: the result of fuzzy_expand_skills is the input skills together with,
\* for each input skill whose best-scoring term of jd_terms reaches the
\* threshold, one best-scoring term: every input skill is in the result,
\* every added element is a known term occurring in the lowercased job
\* description, each skill adds at most one term, and nothing is added for a
\* skill whose best score is below the threshold.
C5_ResultIsInputPlusBestMatches ==
    spc = "returned" =>
        LET R == ElementsOf(expanded)
            In == SeqToSet(skills_arg)
            low == Lower(jd_text)
        IN  /\ In \subseteq R
            /\ \A e \in R \ In : e \in all_known /\ Contains(low, e)
            /\ \A e \in R \ In : \E s \in In : e \in QualifyingBest(s)
            /\ \A s \in In : QualifyingBest(s) # {} => R \cap QualifyingBest(s) # {}
            /\ \A i \in 1..Len(contrib) :
                  /\ Len(contrib[i]) <= 1
                  /\ Len(contrib[i]) = 1 <=> QualifyingBest(skills_arg[i]) # {}
                  /\ Len(contrib[i]) = 1 => contrib[i][1] \in QualifyingBest(skills_arg[i])
            /\ R = In \cup UNION {SeqToSet(contrib[i]) : i \in 1..Len(contrib)}

C5_Witness ==
    /\ spc = "returned"
    /\ skills_arg = <<"react native", "sql">>
    /\ threshold = DefaultThreshold
    /\ expanded = ListOfSet({"react native", "sql", "react"})

(***************************************************************************)
(* main.py: ResumeExtractor.  A document is what PyPDF2 or python-docx     *)
(* finds in the bytes:                                                     *)
(*   [format |-> "pdf", pages |-> <<[text, annots], ...>>]                 *)
(*   [format |-> "docx", paragraphs |-> <<...>>, rels |-> <<...>>]         *)
(*   [format |-> "garbage"]   bytes no reader can open                     *)
(* A page's text is [ok |-> TRUE, s |-> ...], or [ok |-> FALSE] when       *)
(* page.extract_text() raises.  An annotation is one of                    *)
(*   [kind |-> "uri", uri |-> u]   a /Link whose action holds /URI u       *)
(*   [kind |-> "bad_ref"]          get_object() raises                     *)
(*   [kind |-> "not_dict"]         resolves to an object without .get      *)
(*   [kind |-> "not_link"]         a dictionary whose /Subtype is not /Link*)
(*   [kind |-> "no_action"]        a /Link without /A                      *)
(*   [kind |-> "bad_action"]       /A is a reference that does not resolve *)
(***************************************************************************)
RECURSIVE Join(_, _)
\* sep.join(parts)
Join(parts, sep) ==
    IF parts = <<>> THEN ""
    ELSE IF Len(parts) = 1 THEN parts[1]
    ELSE parts[1] \o sep \o Join(Tail(parts), sep)

RECURSIVE Flatten(_)
Flatten(lists) ==
    IF lists = <<>> THEN <<>> ELSE Head(lists) \o Flatten(Tail(lists))

\* appending every url, seen before or not
AppendAlways(urls, url) == Append(urls, url)

\* `if url not in urls: urls.append(url)`
AppendUrl(urls, url) ==
    IF url \in SeqToSet(urls) THEN urls ELSE Append(urls, url)

RECURSIVE ScanAnnotations(_, _, _)
\* the two loops of extract_urls_from_pdf over the annotations of all
\* pages in order; an exception outside the inner try blocks leaves both
\* loops and the urls found so far are returned
ScanAnnotations(annots, i, urls) ==
    IF i > Len(annots) THEN urls
    ELSE LET a == annots[i]
         IN  IF a.kind = "not_dict" THEN urls
             ELSE IF a.kind = "uri" /\ a.uri # ""
                  THEN ScanAnnotations(annots, i + 1, AppendUrl(urls, a.uri))
             ELSE ScanAnnotations(annots, i + 1, urls)

\* extract_urls_from_pdf: a file that cannot be read as PDF gives no urls
extract_urls_from_pdf(doc) ==
    IF doc.format # "pdf" THEN <<>>
    ELSE ScanAnnotations(
             Flatten([k \in 1..Len(doc.pages) |-> doc.pages[k].annots]),
             1, <<>>)

RECURSIVE ScanRels(_, _, _)
\* the loop of extract_urls_from_docx over doc.part.rels.values()
ScanRels(rels, i, urls) ==
    IF i > Len(rels) THEN urls
    ELSE LET rel == rels[i]
             url == rel.target_ref
         IN  IF /\ Contains(rel.reltype, "hyperlink")
                /\ url # ""
                /\ url \notin SeqToSet(urls)
                /\ ~StartsWith(url, "#")
             THEN ScanRels(rels, i + 1, Append(urls, url))
             ELSE ScanRels(rels, i + 1, urls)

\* extract_urls_from_docx: a file that cannot be read as a Word document
\* gives no urls
extract_urls_from_docx(doc) ==
    IF doc.format # "docx" THEN <<>> ELSE ScanRels(doc.rels, 1, <<>>)

UrlHeader == "\n\nEXTRACTED URLS/LINKS:\n"

RECURSIVE UrlLines(_)
\* `for url in urls: text += f"- {url}\n"`
UrlLines(urls) ==
    IF urls = <<>> THEN ""
    ELSE "- " \o Head(urls) \o "\n" \o UrlLines(Tail(urls))

\* `if urls:` the header and one line per url are appended to the text
WithUrlBlock(text, urls) ==
    IF urls = <<>> THEN text ELSE text \o UrlHeader \o UrlLines(urls)

\* outcomes of a call
Returned(text, urls, by) ==
    [kind |-> "text", text |-> text, urls |-> urls, extractor |-> by]
Raised(type, message, by) ==
    [kind |-> "error", type |-> type, message |-> message, extractor |-> by]

\* `page_text or ""`, with "" for a page whose extract_text() raised
PageText(page) == IF page.text.ok THEN page.text.s ELSE ""

\* a PDF extractor that gives an empty text for a container it cannot open
ExtractPdfSwallowing(doc) ==
    IF doc.format # "pdf"
    THEN Returned("", <<>>, "pdf")
    ELSE LET text == Join([k \in 1..Len(doc.pages) |-> PageText(doc.pages[k])], "\n")
             urls == extract_urls_from_pdf(doc)
         IN  Returned(WithUrlBlock(text, urls), urls, "pdf")

extract_text_from_pdf(doc) ==
    IF doc.format # "pdf"
    THEN Raised("PdfReadError", "cannot read PDF", "pdf")
    ELSE LET text == Join([k \in 1..Len(doc.pages) |-> PageText(doc.pages[k])], "\n")
             urls == extract_urls_from_pdf(doc)
         IN  Returned(WithUrlBlock(text, urls), urls, "pdf")

extract_text_from_docx(doc) ==
    IF doc.format # "docx"
    THEN Raised("PackageNotFoundError", "cannot read Word document", "docx")
    ELSE LET text == Join(doc.paragraphs, "\n")
             urls == extract_urls_from_docx(doc)
         IN  Returned(WithUrlBlock(text, urls), urls, "docx")

\* extract_text_from_pdf_bytes when neither the temporary file nor its
\* removal fails: the file-based extractor on the staged bytes
extract_text_from_pdf_bytes(doc) ==
    LET r == extract_text_from_pdf(doc)
    IN  [r EXCEPT !.extractor = "pdf_bytes"]

\* extract_text_from_docx_bytes: the paragraphs only
extract_text_from_docx_bytes(doc) ==
    IF doc.format # "docx"
    THEN Raised("PackageNotFoundError", "cannot read Word document", "docx_bytes")
    ELSE Returned(Join(doc.paragraphs, "\n"), <<>>, "docx_bytes")

\* the final component of a path, as pathlib's PurePath.name gives it:
\* empty components and "." components do not count
PathParts(path) ==
    LET cuts == <<0>> \o
                 [k \in 1..Cardinality({i \in 1..Len(path) : CharAt(path, i) = "/"}) |->
                     CHOOSE i \in 1..Len(path) :
                        /\ CharAt(path, i) = "/"
                        /\ Cardinality({j \in 1..i : CharAt(path, j) = "/"}) = k]
                 \o <<Len(path) + 1>>
        parts == [k \in 1..(Len(cuts) - 1) |->
                     SubSeq(path, cuts[k] + 1, cuts[k + 1] - 1)]
    IN  SelectSeq(parts, LAMBDA c : c # "" /\ c # ".")

PathName(path) ==
    LET parts == PathParts(path)
    IN  IF parts = <<>> THEN "" ELSE parts[Len(parts)]

\* PurePath.suffix: the name from its last dot on, when that dot is neither
\* the first nor the last character of the name
Suffix(path) ==
    LET name == PathName(path)
        dots == {i \in 1..Len(name) : CharAt(name, i) = "."}
        last == IF dots = {} THEN 0
                ELSE CHOOSE i \in dots : \A j \in dots : j <= i
    IN  IF 1 < last /\ last < Len(name)
        THEN SubSeq(name, last, Len(name)) ELSE ""

\* the extension compared as written, without lower()
ExtensionAsWritten(path) == Suffix(path)

\* `Path(filename).suffix.lower()`
Extension(path) == Lower(Suffix(path))

UnsupportedMessage(extension) ==
    "Unsupported file format: " \o extension
        \o ". Supported formats: .pdf, .docx, .doc"

extract_text_from_bytes(doc, name) ==
    LET extension == Extension(name)
    IN  IF extension = ".pdf" THEN extract_text_from_pdf_bytes(doc)
        ELSE IF extension \in {".docx", ".doc"}
             THEN extract_text_from_docx_bytes(doc)
        ELSE Raised("ValueError", UnsupportedMessage(extension), "none")

extract_text_from_file(path, doc) ==
    LET extension == Extension(path)
    IN  IF doc = NoFile
        THEN Raised("FileNotFoundError", "File not found: " \o path, "none")
        ELSE IF extension = ".pdf" THEN extract_text_from_pdf(doc)
        ELSE IF extension \in {".docx", ".doc"} THEN extract_text_from_docx(doc)
        ELSE Raised("ValueError", UnsupportedMessage(extension), "none")

(***************************************************************************)
(* The calls of ResumeExtractor: one file name and one document, given to  *)
(* both entry points.                                                      *)
(***************************************************************************)
MaxAnnots == 2
MaxPages == 2
MaxRels == 2

Filenames ==
    {"resume.pdf", "CV.PDF", "cv.docx", "old.Doc", "notes.txt", "resume",
     ".pdf", "docs.v2/resume", "cv.pdf "}

Url1 == "https://github.com/jane"
Url2 == "mailto:jane@example.org"

Annot(kind, uri) == [kind |-> kind, uri |-> uri]

AnnotPool ==
    {Annot("uri", Url1), Annot("uri", Url2), Annot("bad_ref", ""),
     Annot("not_dict", ""), Annot("not_link", ""), Annot("no_action", ""),
     Annot("bad_action", "")}

TextOk(t) == [ok |-> TRUE, s |-> t]
TextFails == [ok |-> FALSE, s |-> ""]

\* one-page documents with up to MaxAnnots annotations of any kind, and
\* documents of up to MaxPages pages that may fail to give their text
PdfDocuments ==
    {[format |-> "pdf",
      pages |-> <<[text |-> TextOk("Jane Doe"), annots |-> a]>>] :
         a \in SeqsUpTo(AnnotPool, MaxAnnots)}
    \cup
    {[format |-> "pdf", pages |-> ps] :
         ps \in SeqsUpTo(
                   [text : {TextOk("Skills: SQL"), TextFails},
                    annots : {<<>>, <<Annot("uri", Url1)>>, <<Annot("not_dict", "")>>}],
                   MaxPages)}

Rel(reltype, target) == [reltype |-> reltype, target_ref |-> target]

HyperlinkType ==
    "http://schemas.openxmlformats.org/officeDocument/2006/relationships/hyperlink"
ImageType ==
    "http://schemas.openxmlformats.org/officeDocument/2006/relationships/image"

RelPool ==
    {Rel(HyperlinkType, Url1), Rel(HyperlinkType, Url2),
     Rel(HyperlinkType, "#top"), Rel(ImageType, "media/photo.png")}

DocxDocuments ==
    {[format |-> "docx", paragraphs |-> <<"Jane Doe", "", "Skills: SQL">>,
      rels |-> r] : r \in SeqsUpTo(RelPool, MaxRels)}

Documents == PdfDocuments \cup DocxDocuments \cup {[format |-> "garbage"]}

ExtractInit ==
    /\ filename \in Filenames
    /\ document \in Documents \cup {NoFile}
    /\ from_bytes = NotCalled
    /\ from_file = NotCalled
    /\ SkillsIdle
    /\ TmpIdle
    /\ ShapeIdle
    /\ ScreenIdle
    /\ BoundaryIdle

\* extract_text_from_bytes(file_bytes, filename)
ExtractFromBytes ==
    /\ from_bytes = NotCalled
    /\ document # NoFile
    /\ from_bytes' = extract_text_from_bytes(document, filename)
    /\ UNCHANGED <<filename, document, from_file, outsideExtract>>

\* extract_text_from_file(file_path)
ExtractFromFile ==
    /\ from_file = NotCalled
    /\ from_file' = extract_text_from_file(filename, document)
    /\ UNCHANGED <<filename, document, from_bytes, outsideExtract>>

ExtractNext ==
    \/ ExtractFromBytes
    \/ ExtractFromFile

SpecExtract == ExtractInit /\ [][ExtractNext]_vars

(***************************************************************************)
(* Claims about ResumeExtractor, checked under SpecExtract                 *)
(***************************************************************************)
SupportedList == ".pdf, .docx, .doc"

\* what the claim asks of one entry point's outcome r, for the extractors
\* pdfName and wordName of that entry point
DispatchedBySuffix(r, pdfName, wordName) ==
    LET ext == Lower(Suffix(filename))
    IN  /\ ext = ".pdf" => r.extractor = pdfName
        /\ ext \in {".docx", ".doc"} => r.extractor = wordName
        /\ ext \notin {".pdf", ".docx", ".doc"} =>
              /\ r.kind = "error"
              /\ r.type = "ValueError"
              /\ r.extractor = "none"
              /\ r.message = "Unsupported file format: " \o ext
                                \o ". Supported formats: " \o SupportedList

\* C6: both entry points dispatch on the lowercased suffix of the file
\* name: ".pdf" goes to the PDF extractor, ".docx" and ".doc" to the Word
\* extractor, and anything else raises the unsupported-format ValueError,
\* whose message names the suffix and the supported formats, with no
\* extractor invoked.  extract_text_from_file is taken on a path that
\* exists; a missing path never reaches the dispatch.
C6_DispatchOnExtension ==
    /\ from_bytes # NotCalled =>
          DispatchedBySuffix(from_bytes, "pdf_bytes", "docx_bytes")
    /\ (from_file # NotCalled /\ document # NoFile) =>
          DispatchedBySuffix(from_file, "pdf", "docx")

C6_Witness ==
    /\ filename = "notes.txt"
    /\ document.format = "pdf"
    /\ from_bytes.kind = "error" /\ from_bytes.type = "ValueError"
    /\ from_file.kind = "error" /\ from_file.type = "ValueError"

\* the hyperlink targets a document holds, in document order
LinkTargets(doc) ==
    IF doc.format = "pdf"
    THEN LET all == Flatten([k \in 1..Len(doc.pages) |-> doc.pages[k].annots])
             links == SelectSeq(all, LAMBDA a : a.kind = "uri")
         IN  [k \in 1..Len(links) |-> links[k].uri]
    ELSE IF doc.format = "docx"
    THEN LET links == SelectSeq(doc.rels,
                          LAMBDA r : r.reltype = HyperlinkType)
         IN  [k \in 1..Len(links) |-> links[k].target_ref]
    ELSE <<>>

FirstIndex(q, x) == Min({i \in 1..Len(q) : q[i] = x})

\* the body text of a document as the extractor named `by` reads it
BodyText(doc, by) ==
    IF by \in {"pdf", "pdf_bytes"}
    THEN Join([k \in 1..Len(doc.pages) |->
                  IF doc.pages[k].text.ok THEN doc.pages[k].text.s ELSE ""], "\n")
    ELSE Join(doc.paragraphs, "\n")

\* the number of places at which t occurs in s
Occurrences(s, t) ==
    Cardinality({i \in 1..(Len(s) - Len(t) + 1) : SubSeq(s, i, i + Len(t) - 1) = t})

UrlBlockRule(r) ==
    r.kind = "text" =>
        LET body == BodyText(document, r.extractor)
            targets == LinkTargets(document)
            text == r.text
        IN  /\ NoDuplicates(r.urls)
            /\ \A i \in 1..Len(r.urls) : r.urls[i] \in SeqToSet(targets)
            /\ \A i, j \in 1..Len(r.urls) :
                  i < j => FirstIndex(targets, r.urls[i]) < FirstIndex(targets, r.urls[j])
            /\ r.urls = <<>> =>
                  /\ text = body
                  /\ ~Contains(text, "EXTRACTED URLS/LINKS:")
            /\ r.urls # <<>> =>
                  /\ text = body \o "\n\nEXTRACTED URLS/LINKS:\n"
                              \o Join([k \in 1..Len(r.urls) |-> "- " \o r.urls[k] \o "\n"], "")
                  /\ \A k \in 1..Len(r.urls) :
                        Occurrences(text, "- " \o r.urls[k] \o "\n") = 1

\* C7: in every text an extractor returns, the urls found by its hyperlink
\* pass are listed once each, in the order in which the document first
\* holds them, after the body text and the header; with no url found the
\* text is the body alone, without the header.
C7_UrlBlockOncePerUrlInOrder ==
    /\ from_bytes # NotCalled => UrlBlockRule(from_bytes)
    /\ from_file # NotCalled => UrlBlockRule(from_file)

C7_Witness ==
    /\ document.format = "pdf"
    /\ Len(document.pages) = 1
    /\ document.pages[1].annots = <<Annot("uri", Url2), Annot("uri", Url2)>>
    /\ from_bytes.kind = "text"
    /\ from_bytes.urls = <<Url2>>
    /\ from_file.kind = "text"
    /\ from_file.urls = <<Url2>>

\* the targets of the hyperlink relationships that are not "#" anchors,
\* once each, in order
ExternalTargets(doc) ==
    LET targets == LinkTargets(doc)
        keep == {i \in 1..Len(targets) :
                    /\ ~StartsWith(targets[i], "#")
                    /\ FirstIndex(targets, targets[i]) = i}
    IN  [k \in 1..Cardinality(keep) |->
            targets[CHOOSE i \in keep : Cardinality({j \in keep : j <= i}) = k]]

\* C8: for a Word document with at least one hyperlink target that is not
\* a "#" anchor, extraction from bytes and extraction from the file return
\* the same text, which ends with the url block listing those targets.
C8_DocxBytesMatchesDocxFile ==
    (/\ document.format = "docx"
     /\ ExternalTargets(document) # <<>>
     /\ from_bytes # NotCalled /\ from_bytes.extractor = "docx_bytes"
     /\ from_file # NotCalled /\ from_file.extractor = "docx")
    => /\ from_bytes.kind = "text" /\ from_file.kind = "text"
       /\ from_bytes.text = from_file.text
       /\ EndsWith(from_bytes.text,
                   UrlHeader \o UrlLines(ExternalTargets(document)))
       /\ EndsWith(from_file.text,
                   UrlHeader \o UrlLines(ExternalTargets(document)))

\* what holds of the file entry point alone
C8_DocxFileHasUrlBlock ==
    (/\ document.format = "docx"
     /\ ExternalTargets(document) # <<>>
     /\ from_file # NotCalled /\ from_file.extractor = "docx")
    => /\ from_file.kind = "text"
       /\ EndsWith(from_file.text,
                   UrlHeader \o UrlLines(ExternalTargets(document)))

(***************************************************************************)
(* One call of ResumeExtractor.extract_text_from_pdf_bytes, statement by   *)
(* statement.  Creating, writing, closing and removing the file are        *)
(* operating-system calls that may fail; each such step draws its outcome. *)
(***************************************************************************)
\* the name NamedTemporaryFile(delete=False, suffix=".pdf") gave the file
TmpName == "/tmp/tmpk3v9x2.pdf"

\* a file created and not written, and a file whose write was cut short
EmptyContent == [format |-> "empty"]
PartialContent == [format |-> "partial"]

OSError(what) == Raised("OSError", what, "pdf_bytes")

TmpInit ==
    /\ file_bytes \in Documents
    /\ tmp_pc = "create"
    /\ tmp_path = ""
    /\ tmp_file = NoTmpFile
    /\ reopened = NotCalled
    /\ pending = NotCalled
    /\ remove_failed = FALSE
    /\ outcome = NotCalled
    /\ SkillsIdle
    /\ ExtractIdle
    /\ ShapeIdle
    /\ ScreenIdle
    /\ BoundaryIdle

\* tmp_path = None; tempfile.NamedTemporaryFile(delete=False, suffix=".pdf")
TmpCreate ==
    /\ tmp_pc = "create"
    /\ \E ok \in BOOLEAN :
          IF ok
          THEN /\ tmp_file' = [exists |-> TRUE, open |-> TRUE,
                               content |-> EmptyContent]
               /\ tmp_pc' = "write"
               /\ UNCHANGED pending
          ELSE /\ pending' = OSError("cannot create temporary file")
               /\ tmp_pc' = "finally"
               /\ UNCHANGED tmp_file
    /\ UNCHANGED <<file_bytes, tmp_path, reopened, remove_failed, outcome,
                   outsideTmp>>

\* tmp.write(file_bytes); when it raises, the with statement closes the file
\* and the exception leaves the try block
TmpWrite ==
    /\ tmp_pc = "write"
    /\ \E ok \in BOOLEAN :
          IF ok
          THEN /\ tmp_file' = [tmp_file EXCEPT !.content = file_bytes]
               /\ tmp_pc' = "assign"
               /\ UNCHANGED pending
          ELSE /\ tmp_file' = [tmp_file EXCEPT !.content = PartialContent,
                                               !.open = FALSE]
               /\ pending' = OSError("write failed")
               /\ tmp_pc' = "finally"
    /\ UNCHANGED <<file_bytes, tmp_path, reopened, remove_failed, outcome,
                   outsideTmp>>

\* tmp_path = tmp.name
TmpAssignPath ==
    /\ tmp_pc = "assign"
    /\ tmp_path' = TmpName
    /\ tmp_pc' = "close"
    /\ UNCHANGED <<file_bytes, tmp_file, reopened, pending, remove_failed,
                   outcome, outsideTmp>>

\* the end of the with block closes the file, flushing what was written
TmpClose ==
    /\ tmp_pc = "close"
    /\ \E ok \in BOOLEAN :
          IF ok
          THEN /\ tmp_file' = [tmp_file EXCEPT !.open = FALSE]
               /\ tmp_pc' = "extract"
               /\ UNCHANGED pending
          ELSE /\ tmp_file' = [tmp_file EXCEPT !.content = PartialContent,
                                               !.open = FALSE]
               /\ pending' = OSError("flush failed")
               /\ tmp_pc' = "finally"
    /\ UNCHANGED <<file_bytes, tmp_path, reopened, remove_failed, outcome,
                   outsideTmp>>

\* return ResumeExtractor.extract_text_from_pdf(tmp_path)
TmpExtract ==
    /\ tmp_pc = "extract"
    /\ reopened' = [kind |-> "opened",
                    closed |-> ~tmp_file.open,
                    complete |-> (tmp_file.content = file_bytes)]
    /\ pending' = [extract_text_from_pdf(tmp_file.content)
                      EXCEPT !.extractor = "pdf_bytes"]
    /\ tmp_pc' = "finally"
    /\ UNCHANGED <<file_bytes, tmp_path, tmp_file, remove_failed, outcome,
                   outsideTmp>>

\* finally: if tmp_path: try: os.remove(tmp_path) except Exception: pass
\* and then the pending return or exception leaves the call
TmpFinally ==
    /\ tmp_pc = "finally"
    /\ IF tmp_path # ""
       THEN \E ok \in BOOLEAN :
               IF ok
               THEN /\ tmp_file' = [tmp_file EXCEPT !.exists = FALSE]
                    /\ UNCHANGED remove_failed
               ELSE /\ remove_failed' = TRUE
                    /\ UNCHANGED tmp_file
       ELSE UNCHANGED <<tmp_file, remove_failed>>
    /\ outcome' = pending
    /\ tmp_pc' = "done"
    /\ UNCHANGED <<file_bytes, tmp_path, reopened, pending, outsideTmp>>

TmpNext ==
    \/ TmpCreate
    \/ TmpWrite
    \/ TmpAssignPath
    \/ TmpClose
    \/ TmpExtract
    \/ TmpFinally

SpecTmpFile == TmpInit /\ [][TmpNext]_vars

(***************************************************************************)
(* Claims about the temporary file, checked under SpecTmpFile              *)
(***************************************************************************)
\* C9: on every exit path of extract_text_from_pdf_bytes after the file has
\* been created, the file no longer exists when the call returns or raises;
\* the file is fully written and closed before it is reopened for parsing;
\* and a failure of the deletion never replaces the primary result or error.
\* The file is asked to be gone on the exits where os.remove did not itself
\* fail.
C9_TempFileGoneOnEveryExit ==
    /\ (tmp_pc = "done" /\ tmp_file # NoTmpFile /\ ~remove_failed)
          => ~tmp_file.exists
    /\ reopened # NotCalled => (reopened.closed /\ reopened.complete)
    /\ (tmp_pc = "done" /\ remove_failed) => outcome = pending

\* the part of C9 that holds: the file is closed and complete when it is
\* reopened, a failed deletion leaves the outcome alone, and with no fault
\* at all the call gives what extract_text_from_pdf gives and the file is
\* gone
TmpFileWrittenBeforeReopened ==
    reopened # NotCalled => (reopened.closed /\ reopened.complete)

DeletionFailureKeepsOutcome ==
    tmp_pc = "done" =>
        /\ outcome = pending
        /\ reopened # NotCalled =>
              outcome = extract_text_from_pdf_bytes(file_bytes)

\* the file outlives the call exactly when tmp_path was never assigned
\* (the write failed) or os.remove itself failed
TmpFileLeftExactlyWhen ==
    (tmp_pc = "done" /\ tmp_file # NoTmpFile) =>
        (tmp_file.exists <=> (tmp_path = "" \/ remove_failed))

\* a write failure with a working os.remove: the file is left behind
TmpFileLeftAfterWriteFailure ==
    /\ tmp_pc = "done"
    /\ outcome = OSError("write failed")
    /\ ~remove_failed
    /\ tmp_file.exists

(***************************************************************************)
(* ResumeProcessor._normalize_screening_result.  A Python value is a       *)
(* record of its type and its content; a dict is a function from its keys. *)
(***************************************************************************)
Str(s) == [tag |-> "str", val |-> s]
List(l) == [tag |-> "list", val |-> l]
None == [tag |-> "None", val |-> <<>>]
Dict(m) == [tag |-> "dict", val |-> m]
\* a number n/d; d = 0 stands for inf (n > 0), -inf (n < 0) and nan (n = 0)
Num(n, d) == [tag |-> "num", val |-> <<n, d>>]

EmptyDict == <<>>
\* the dict {key: value}
Single(key, value) == [k \in {key} |-> value]

Digits == <<"0", "1", "2", "3", "4", "5", "6", "7", "8", "9">>
IsDigit(c) == c \in SeqToSet(Digits)
DigitValue(c) == CHOOSE v \in 0..9 : Digits[v + 1] = c

RECURSIVE Pow10(_)
Pow10(k) == IF k = 0 THEN 1 ELSE 10 * Pow10(k - 1)

RECURSIVE Gcd(_, _)
Gcd(a, b) == IF b = 0 THEN a ELSE Gcd(b, a % b)

Abs(n) == IF n < 0 THEN -n ELSE n

\* n/d in lowest terms
Fraction(n, d) ==
    LET g == Gcd(Abs(n), d)
    IN  IF g = 0 THEN <<0, 1>> ELSE <<n \div g, d \div g>>

\* digits with single underscores between them: its value and its number
\* of digits, or <<>> when s is not of that form
RECURSIVE DigitPart(_, _, _, _)
DigitPart(s, i, value, count) ==
    IF i > Len(s)
    THEN IF count = 0 THEN <<>> ELSE <<value, count>>
    ELSE LET c == CharAt(s, i)
         IN  IF IsDigit(c)
             THEN DigitPart(s, i + 1, 10 * value + DigitValue(c), count + 1)
             ELSE IF c = "_" /\ count > 0 /\ i < Len(s) /\ IsDigit(CharAt(s, i + 1))
             THEN DigitPart(s, i + 1, value, count)
             ELSE <<>>

\* the sign a string starts with and what follows it
SignOf(s) == IF StartsWith(s, "-") THEN -1 ELSE 1
Unsigned(s) ==
    IF StartsWith(s, "-") \/ StartsWith(s, "+") THEN SubSeq(s, 2, Len(s)) ELSE s

\* float(s): <<TRUE, n, d>> for the number n/d, <<FALSE, 0, 0>> when float
\* raises ValueError.  float strips whitespace and takes a sign, "inf",
\* "infinity" and "nan" in any case, or decimal digits with an optional
\* point and an optional exponent.
float(s) ==
    LET t == Strip(s)
        sign == SignOf(t)
        u == Unsigned(t)
        low == Lower(u)
        e == IndexIn("e", low, 1)
        mant == IF e = 0 THEN low ELSE SubSeq(low, 1, e - 1)
        expo == IF e = 0 THEN "0" ELSE SubSeq(low, e + 1, Len(low))
        ex == DigitPart(Unsigned(expo), 1, 0, 0)
        dot == IndexIn(".", mant, 1)
        whole == IF dot = 0 THEN mant ELSE SubSeq(mant, 1, dot - 1)
        frac == IF dot = 0 THEN "" ELSE SubSeq(mant, dot + 1, Len(mant))
        w == IF whole = "" THEN <<0, 0>> ELSE DigitPart(whole, 1, 0, 0)
        f == IF frac = "" THEN <<0, 0>> ELSE DigitPart(frac, 1, 0, 0)
        failed == <<FALSE, 0, 0>>
    IN  IF low \in {"inf", "infinity"} THEN <<TRUE, sign, 0>>
        ELSE IF low = "nan" THEN <<TRUE, 0, 0>>
        ELSE IF w = <<>> \/ f = <<>> \/ ex = <<>> THEN failed
        ELSE IF w[2] + f[2] = 0 THEN failed
        ELSE LET n == sign * (w[1] * Pow10(f[2]) + f[1])
                 d == Pow10(f[2])
                 q == IF SignOf(expo) = 1
                      THEN Fraction(n * Pow10(ex[1]), d)
                      ELSE Fraction(n, d * Pow10(ex[1]))
             IN  <<TRUE, q[1], q[2]>>

object_keys ==
    <<"project_match", "education_match", "experience_match", "skill_match",
      "cultural_fit">>

\* the body of `for key in object_keys:` for a key the dict holds
Wrapped(val) ==
    IF val.tag = "str" THEN Dict(Single("text", val))
    ELSE IF val.tag = "list" THEN Dict(Single("items", val))
    ELSE IF val.tag = "None" THEN Dict(EmptyDict)
    ELSE val

\* the overall_score block without its coercion
CoerceScoreSkipped(m) == m

\* the overall_score block applied to a dict m
CoerceScore(m) ==
    IF "overall_score" \notin DOMAIN m THEN m
    ELSE IF m["overall_score"].tag # "str" THEN m
    ELSE LET x == float(m["overall_score"].val)
         IN  IF x[1]
             THEN [m EXCEPT !["overall_score"] = Num(x[2], x[3])]
             ELSE [k \in DOMAIN m \ {"overall_score"} |-> m[k]]

_normalize_screening_result(result) ==
    IF result.tag # "dict" THEN result
    ELSE LET m == result.val
             wrapped == [k \in DOMAIN m |->
                            IF k \in SeqToSet(object_keys)
                            THEN Wrapped(m[k]) ELSE m[k]]
         IN  Dict(CoerceScore(wrapped))

(***************************************************************************)
(* Calls of _normalize_screening_result.  The dict is changed in place and *)
(* returned, so result_out is also what the caller's dict holds afterwards;*)
(* result_in keeps the argument as it was passed.                          *)
(***************************************************************************)
MaxFields == 2

ObjectKeySet == SeqToSet(object_keys)

FieldValues ==
    {Str("strong fit"), List(<<"python", "sql">>), None,
     Dict(Single("score", Num(8, 1))), Num(8, 1)}

ScoreValues ==
    {Num(7, 1), Str("7.5"), Str("not-a-number"), Str(" 1e1 "), Str("nan"), None}

Merge(f, g) ==
    [k \in DOMAIN f \cup DOMAIN g |-> IF k \in DOMAIN f THEN f[k] ELSE g[k]]

\* a key that is neither a named field nor overall_score
OtherValues == {Str("Solid backend profile")}

\* dicts holding at most MaxFields of the named fields, with or without an
\* overall_score, with or without another key
ResultDicts ==
    LET named == UNION {[K -> FieldValues] :
                          K \in {K \in SUBSET ObjectKeySet : Cardinality(K) <= MaxFields}}
        score == {EmptyDict} \cup {Single("overall_score", v) : v \in ScoreValues}
        other == {EmptyDict} \cup {Single("summary", v) : v \in OtherValues}
    IN  {Merge(Merge(f, g), h) : f \in named, g \in score, h \in other}

Results ==
    {Dict(m) : m \in ResultDicts} \cup {Str("no result"), None, List(<<>>)}

ShapeInit ==
    /\ result_in \in Results
    /\ result_out = NotCalled
    /\ SkillsIdle
    /\ ExtractIdle
    /\ TmpIdle
    /\ ScreenIdle
    /\ BoundaryIdle

\* ResumeProcessor._normalize_screening_result(result)
NormalizeResult ==
    /\ result_out = NotCalled
    /\ result_out' = _normalize_screening_result(result_in)
    /\ UNCHANGED <<result_in, outsideShape>>

ShapeNext ==
    \/ NormalizeResult

SpecShape == ShapeInit /\ [][ShapeNext]_vars

(***************************************************************************)
(* Claims about _normalize_screening_result, checked under SpecShape       *)
(***************************************************************************)
Normalized == result_out # NotCalled /\ result_in.tag = "dict"

\* what the claim asks of the named field k of the returned dict
FieldIsObject(k) ==
    LET before == result_in.val
        after == result_out.val
    IN  /\ k \in DOMAIN after
        /\ after[k].tag = "dict"
        /\ IF k \notin DOMAIN before THEN after[k] = Dict(EmptyDict)
           ELSE IF before[k].tag = "str"
                THEN after[k] = Dict(Single("text", before[k]))
           ELSE IF before[k].tag = "list"
                THEN after[k] = Dict(Single("items", before[k]))
           ELSE IF before[k].tag = "None" THEN after[k] = Dict(EmptyDict)
           ELSE IF before[k].tag = "dict" THEN after[k] = before[k]
           ELSE TRUE

\* C10: for each of the five named fields, a string s becomes {text: s}, a
\* list l becomes {items: l}, an absent or null value becomes an empty
\* object and an object stays as it is, so that after the call every named
\* field is present in the result and holds an object.
C10_EveryNamedFieldIsObject ==
    Normalized =>
        /\ result_out.tag = "dict"
        /\ \A k \in ObjectKeySet : FieldIsObject(k)

\* the part of C10 that holds: a named field the dict holds as a string, a
\* list, None or a dict comes out as the claim says
PresentFieldsWrapped ==
    Normalized =>
        /\ result_out.tag = "dict"
        /\ \A k \in ObjectKeySet \cap DOMAIN result_in.val :
              result_in.val[k].tag # "num" => FieldIsObject(k)

\* a named field the dict does not hold is not added, and a number stays a
\* number
AbsentStaysAbsent ==
    Normalized =>
        \A k \in ObjectKeySet :
            /\ k \notin DOMAIN result_in.val => k \notin DOMAIN result_out.val
            /\ (k \in DOMAIN result_in.val /\ result_in.val[k].tag = "num")
                  => result_out.val[k] = result_in.val[k]

\* what the claim asks of overall_score in the returned dict
ScoreCoerced ==
    LET before == result_in.val
        after == result_out.val
    IN  "overall_score" \in DOMAIN before =>
          LET v == before["overall_score"]
          IN  /\ v.tag = "num" =>
                    /\ "overall_score" \in DOMAIN after
                    /\ after["overall_score"] = v
              /\ v.tag = "str" =>
                    IF float(v.val)[1]
                    THEN /\ "overall_score" \in DOMAIN after
                         /\ after["overall_score"] = Num(float(v.val)[2], float(v.val)[3])
                    ELSE "overall_score" \notin DOMAIN after
              /\ v = Str("7.5") =>
                    /\ "overall_score" \in DOMAIN after
                    /\ after["overall_score"] = Num(15, 2)
              /\ v = Str(" 1e1 ") =>
                    /\ "overall_score" \in DOMAIN after
                    /\ after["overall_score"] = Num(10, 1)
              /\ v = Str("not-a-number") => "overall_score" \notin DOMAIN after

\* C11: _normalize_screening_result returns for every input dict: a string
\* overall_score that float() parses is replaced by that number, one that
\* float() rejects is removed, a numeric overall_score stays as it is, and
\* every key other than overall_score and the five named fields keeps its
\* value; no key is added.
C11_ScoreCoercedOthersUntouched ==
    Normalized =>
        /\ result_out.tag = "dict"
        /\ ScoreCoerced
        /\ DOMAIN result_out.val \subseteq DOMAIN result_in.val
        /\ \A k \in DOMAIN result_in.val \ (ObjectKeySet \cup {"overall_score"}) :
              /\ k \in DOMAIN result_out.val
              /\ result_out.val[k] = result_in.val[k]

C11_Witness ==
    /\ Normalized
    /\ DOMAIN result_in.val = {"overall_score", "summary", "skill_match"}
    /\ result_in.val["overall_score"] = Str("7.5")
    /\ result_out.val["overall_score"] = Num(15, 2)
    /\ result_out.val["summary"] = Str("Solid backend profile")

(***************************************************************************)
(* ResumeProcessor.screen_resume.  The scoring collaborator                *)
(* (self.screener.screen_resume) is deterministic: what it gives back is a *)
(* function of the skills it is handed and of the kind of value it builds. *)
(***************************************************************************)
\* the set normalize_skills makes of the value held under "skills"
NormalizedOf(value) ==
    IF value.how = "input" THEN NormalizedSet(value.list)
    ELSE {LookupCanonical(CleanSkill(t)) : t \in value.elems}

\* fuzzy_expand_skills(skills, jd) with the default threshold, on a list of
\* the set `skills`: the sets its result can hold, one per order of jd_terms
\* (an empty list or an empty jd_text comes back as it is)
ExpandedSkillSets(skills, jd) ==
    IF skills = {} \/ jd = "" THEN {skills}
    ELSE {skills \cup UNION {SeqToSet(MatchFor(t, terms, DefaultThreshold)) : t \in skills} :
             terms \in ListsOf(JdTermSet(jd))}

\* a value of the collaborator: an object with model_dump ("model"), a plain
\* dict ("dict"), an object with an overall_score attribute that dict()
\* converts ("mapping") or does not convert ("object"), or None ("none")
Reply(kind, skill_match) == [kind |-> kind, skill_match |-> skill_match]

\* the fields the collaborator's value carries when handed the skills S
ReplyFields(r, S) ==
    Merge(Single("overall_score", Num(Cardinality(S), 1)),
          Single("skill_match", r.skill_match))

\* model_dump(exclude_none=True)
ExcludeNone(m) == [k \in {k \in DOMAIN m : m[k] # None} |-> m[k]]

\* screening_result.overall_score can be read
HasOverallScoreAttribute(r) == r.kind \in {"model", "mapping", "object"}

AttributeError == [kind |-> "error", type |-> "AttributeError"]
ScreenReturned(value) == [kind |-> "value", value |-> value]

\* screen_resume from the reply of the collaborator on
ScreenOutcome(r, S) ==
    IF ~HasOverallScoreAttribute(r) THEN AttributeError
    ELSE LET result_dict ==
                 IF r.kind = "model" THEN Dict(ExcludeNone(ReplyFields(r, S)))
                 ELSE IF r.kind = "dict" THEN Dict(ReplyFields(r, S))
                 ELSE IF r.kind = "mapping" THEN Dict(ReplyFields(r, S))
                 ELSE Dict(Single("error", Str("invalid screening result format")))
         IN  ScreenReturned(_normalize_screening_result(result_dict))

MaxResumeSkills == 2
MaxCalls == 2

ResumeSkills == {"MySQL", "React Native", "python", "sql"}

\* resumes with and without a "skills" key
Resumes ==
    {Single("name", "Jane Doe")}
    \cup {Merge(Single("name", "Jane Doe"), Single("skills", SameList(l))) :
             l \in SeqsUpTo(ResumeSkills, MaxResumeSkills)}

Replies ==
    {Reply(k, v) : k \in {"model", "dict", "mapping"},
                   v \in {Str("strong fit"), None}}
    \cup {Reply("object", None), Reply("none", None)}

ScreenInit ==
    /\ parsed_resume \in Resumes
    /\ supplied = parsed_resume
    /\ job_description \in JobDescriptions
    /\ reply \in Replies
    /\ screen_log = <<>>
    /\ SkillsIdle
    /\ ExtractIdle
    /\ TmpIdle
    /\ ShapeIdle
    /\ BoundaryIdle

\* screen_resume(parsed_resume, job_title, job_description): both
\* assignments to parsed_resume["skills"], the call of the collaborator on
\* the changed dict, and the return or the exception
ScreenResume ==
    /\ Len(screen_log) < MaxCalls
    /\ LET held == IF "skills" \in DOMAIN parsed_resume
                   THEN parsed_resume["skills"] ELSE SameList(<<>>)
           normal == NormalizedOf(held)
       IN  \E passed \in ExpandedSkillSets(normal, job_description) :
              /\ parsed_resume' =
                    Merge(Single("skills", ListOfSet(passed)), parsed_resume)
              /\ screen_log' = Append(screen_log,
                                  [passed |-> passed,
                                   outcome |-> ScreenOutcome(reply, passed)])
    /\ UNCHANGED <<supplied, job_description, reply, outsideScreen>>

ScreenNext ==
    \/ ScreenResume

SpecScreen == ScreenInit /\ [][ScreenNext]_vars

(***************************************************************************)
(* Claims about screen_resume, checked under SpecScreen                    *)
(***************************************************************************)
\* the caller's resume holds what the caller put in it: the same keys, the
\* same name and the same skills (compared as sets)
ResumeAsSupplied ==
    /\ DOMAIN parsed_resume = DOMAIN supplied
    /\ parsed_resume["name"] = supplied["name"]
    /\ "skills" \in DOMAIN supplied =>
          ElementsOf(parsed_resume["skills"]) = ElementsOf(supplied["skills"])

\* C12: two calls of screen_resume in a row on the same resume hand the
\* same skills to the scoring collaborator and return the same result, and
\* the caller's resume is after a call what it was before the first one.
C12_ScreenStatelessAndIdempotent ==
    /\ Len(screen_log) >= 1 => ResumeAsSupplied
    /\ Len(screen_log) = 2 =>
          /\ screen_log[1].passed = screen_log[2].passed
          /\ screen_log[1].outcome = screen_log[2].outcome

\* what holds instead: after a call the resume's skills are the ones the
\* collaborator was handed in that call
ResumeHoldsPassedSkills ==
    Len(screen_log) >= 1 =>
        /\ "skills" \in DOMAIN parsed_resume
        /\ parsed_resume["skills"] = ListOfSet(screen_log[Len(screen_log)].passed)

(***************************************************************************)
(* Claims about failures inside the extractors, checked under SpecExtract  *)
(***************************************************************************)
\* every annotation of the document, in page order
AllAnnotations(doc) ==
    Flatten([k \in 1..Len(doc.pages) |-> doc.pages[k].annots])

\* what the claim asks of the outcome r of a PDF extraction
LinksRecovered(r) ==
    /\ r.kind = "text"
    /\ SeqToSet(r.urls) = SeqToSet(LinkTargets(document))
    /\ \A u \in SeqToSet(LinkTargets(document)) :
          Contains(r.text, UrlHeader) /\ Contains(r.text, "- " \o u \o "\n")

IsPdfOutcome(r) ==
    /\ r # NotCalled
    /\ document.format = "pdf"
    /\ r.extractor \in {"pdf", "pdf_bytes"}

\* C13: whatever broken annotations a PDF holds (a reference that does not
\* resolve, an object that is not a link dictionary, a missing action, an
\* action that does not resolve), extraction returns a text, the broken
\* annotations add no url, and the url of every well-formed link
\* annotation, also of one that follows a broken one, is in the url block.
C13_BrokenAnnotationsIsolated ==
    /\ IsPdfOutcome(from_bytes) => LinksRecovered(from_bytes)
    /\ IsPdfOutcome(from_file) => LinksRecovered(from_file)

\* what holds: a text is always returned, and every link is recovered when
\* no annotation resolves to an object that is not a dictionary
IsolatedWhenAllDictionaries ==
    LET dicts == \A k \in 1..Len(AllAnnotations(document)) :
                    AllAnnotations(document)[k].kind # "not_dict"
    IN  /\ IsPdfOutcome(from_bytes) =>
              /\ from_bytes.kind = "text"
              /\ dicts => LinksRecovered(from_bytes)
        /\ IsPdfOutcome(from_file) =>
              /\ from_file.kind = "text"
              /\ dicts => LinksRecovered(from_file)

\* the container the extractor of outcome r had to open is not one it can
\* open
ContainerUnreadable(r) ==
    \/ r.extractor \in {"pdf", "pdf_bytes"} /\ document.format # "pdf"
    \/ r.extractor \in {"docx", "docx_bytes"} /\ document.format # "docx"

\* C14: when the PDF or Word container cannot be opened, both entry points
\* raise and return no text; and extract_text_from_file on a path where
\* nothing exists raises FileNotFoundError whatever the extension is, with
\* no extractor opened.
C14_ContainerFailuresPropagate ==
    /\ (from_bytes # NotCalled /\ ContainerUnreadable(from_bytes)) =>
          /\ from_bytes.kind = "error"
          /\ from_bytes.type \in {"PdfReadError", "PackageNotFoundError"}
    /\ (from_file # NotCalled /\ document # NoFile /\ ContainerUnreadable(from_file)) =>
          /\ from_file.kind = "error"
          /\ from_file.type \in {"PdfReadError", "PackageNotFoundError"}
    /\ (from_file # NotCalled /\ document = NoFile) =>
          /\ from_file.kind = "error"
          /\ from_file.type = "FileNotFoundError"
          /\ from_file.extractor = "none"

C14_Witness ==
    /\ document = [format |-> "garbage"]
    /\ filename = "CV.PDF"
    /\ from_bytes.kind = "error" /\ from_bytes.type = "PdfReadError"
    /\ from_file.kind = "error" /\ from_file.type = "PdfReadError"

\* the missing path with an extension that is not supported
MissingPathReached ==
    /\ document = NoFile
    /\ filename = "notes.txt"
    /\ from_file.kind = "error" /\ from_file.type = "FileNotFoundError"

(***************************************************************************)
(* Claims about the collaborator's reply, checked under SpecScreen         *)
(***************************************************************************)
InvalidFormat == Dict(Single("error", Str("invalid screening result format")))

\* what the claim asks of the outcome of the call that handed the
\* collaborator the skills `passed`
ReplyAccepted(call) ==
    /\ reply.kind = "dict" =>
          call.outcome =
              ScreenReturned(_normalize_screening_result(
                                 Dict(ReplyFields(reply, call.passed))))
    /\ reply.kind \in {"object", "none"} =>
          call.outcome = ScreenReturned(InvalidFormat)

\* C15: when the scoring collaborator returns a plain dict, screen_resume
\* returns that dict passed through _normalize_screening_result and does not
\* raise; when it returns a value that has no model_dump, is no dict and
\* cannot be converted to one, screen_resume returns
\* {"error": "invalid screening result format"} and does not raise.
C15_PlainDictAndInvalidReplyAccepted ==
    \A i \in 1..Len(screen_log) : ReplyAccepted(screen_log[i])

\* what holds: a reply whose overall_score attribute can be read is
\* returned normalized (or replaced by the error dict when dict() cannot
\* convert it); any other reply, a plain dict included, raises
\* AttributeError
RepliesWithoutAttributeRaise ==
    \A i \in 1..Len(screen_log) :
        LET call == screen_log[i]
        IN  /\ reply.kind \in {"dict", "none"} => call.outcome = AttributeError
            /\ reply.kind = "object" => call.outcome = ScreenReturned(InvalidFormat)
            /\ reply.kind = "model" =>
                  /\ call.outcome.kind = "value"
                  /\ call.outcome.value.tag = "dict"
                  /\ "skill_match" \in DOMAIN call.outcome.value.val =>
                        call.outcome.value.val["skill_match"].tag = "dict"

(***************************************************************************)
(* app.py: the /api/parse endpoint, from the uploaded file to the response *)
(***************************************************************************)
\* "file" not in request.files
NoFilePart == [filename |-> "", content |-> NoFile, part |-> FALSE]
Upload(name, doc) == [filename |-> name, content |-> doc, part |-> TRUE]

\* file_name.lower().endswith((".pdf", ".docx", ".doc"))
AcceptedByBoundary(file_name) ==
    \E e \in {".pdf", ".docx", ".doc"} : EndsWith(Lower(file_name), e)

\* a response: its status and, for an exception caught by the handler, the
\* type of that exception
Response(status, cause) == [status |-> status, cause |-> cause]

\* parse_resume(); parser_ok tells whether self.parser.parse_resume gives a
\* parsed resume for the extracted text or raises
parse_resume(req, parser_ok) ==
    IF ~req.part THEN Response(400, "No file provided")
    ELSE LET file_name == Strip(req.filename)
         IN  IF file_name = "" THEN Response(400, "No file selected")
             ELSE IF ~AcceptedByBoundary(file_name)
             THEN Response(400, "Invalid file format")
             ELSE LET text == extract_text_from_bytes(req.content, file_name)
                  IN  IF text.kind = "error" THEN Response(500, text.type)
                      ELSE IF parser_ok THEN Response(200, "")
                      ELSE Response(500, "ParserError")

UploadNames == Filenames \cup {"", " cv.docx ", "archive.pdf.zip"}

BoundaryInit ==
    /\ request_file \in {NoFilePart}
                        \cup {Upload(n, doc) : n \in UploadNames, doc \in Documents}
    /\ response = NotCalled
    /\ SkillsIdle
    /\ ExtractIdle
    /\ TmpIdle
    /\ ShapeIdle
    /\ ScreenIdle

\* one request handled by parse_resume
ParseRequest ==
    /\ response = NotCalled
    /\ \E parser_ok \in BOOLEAN :
          response' = parse_resume(request_file, parser_ok)
    /\ UNCHANGED <<request_file, outsideBoundary>>

BoundaryNext ==
    \/ ParseRequest

SpecBoundary == BoundaryInit /\ [][BoundaryNext]_vars

(***************************************************************************)
(* Claims about the boundary, checked under SpecBoundary                   *)
(***************************************************************************)
\* C16: every filename that passes the boundary's check (the stripped,
\* lowercased name ends with ".pdf", ".docx" or ".doc") is dispatched by
\* extract_text_from_bytes to a format extractor and never fails with the
\* unsupported-format ValueError, so that error is never answered with 500.
C16_BoundaryAgreesWithDispatch ==
    (response # NotCalled /\ request_file.part) =>
        /\ AcceptedByBoundary(Strip(request_file.filename)) =>
              /\ response.cause # "ValueError"
              /\ extract_text_from_bytes(request_file.content,
                                         Strip(request_file.filename)).extractor
                    \in {"pdf_bytes", "docx_bytes"}
        /\ response.cause = "ValueError" => response.status = 400

\* what holds: the two checks agree on every name whose last component is
\* more than a bare ".pdf", ".docx" or ".doc"
AgreeUnlessBareSuffix ==
    (response # NotCalled /\ request_file.part) =>
        LET file_name == Strip(request_file.filename)
        IN  (AcceptedByBoundary(file_name) /\ response.cause = "ValueError")
                => Lower(PathName(file_name)) \in {".pdf", ".docx", ".doc"}

====
